---- MODULE Spec2Model ----
(***************************************************************************)
(* A model of tilepygame: the Camera (camera.py) driven through its public *)
(* interface, and the frame loop Game.run (engine.py).                     *)
(*                                                                         *)
(* Python floats are modelled as exact rationals <<n, d>> with d > 0 in    *)
(* lowest terms, so that every comparison of the code is decided exactly.  *)
(***************************************************************************)
EXTENDS Integers, Sequences, FiniteSets, TLC

(***************************************************************************)
(* Exact rational arithmetic (the float operations of the code).           *)
(***************************************************************************)
Abs(n) == IF n < 0 THEN -n ELSE n

RECURSIVE GCD(_, _)
GCD(a, b) == IF b = 0 THEN a ELSE GCD(b, a % b)

\* n/d in lowest terms with a positive denominator (d # 0).
Frac(n, d) ==
    LET s == IF d < 0 THEN -1 ELSE 1
        g == GCD(Abs(n), Abs(d))
    IN  <<(s * n) \div g, (s * d) \div g>>

R(n) == <<n, 1>>

RAdd(a, b) ==
    LET g == GCD(a[2], b[2])
    IN  Frac(a[1] * (b[2] \div g) + b[1] * (a[2] \div g), (a[2] \div g) * b[2])

RNeg(a) == <<-a[1], a[2]>>

RSub(a, b) == RAdd(a, RNeg(b))

RMul(a, b) ==
    LET p == Frac(a[1], b[2])
        q == Frac(b[1], a[2])
    IN  <<p[1] * q[1], p[2] * q[2]>>

\* a / b for b # 0 (Python raises ZeroDivisionError for b = 0; the callers
\* below model that case before they divide).
RDiv(a, b) == RMul(a, Frac(b[2], b[1]))

RLt(a, b) ==
    LET g == GCD(a[2], b[2])
    IN  a[1] * (b[2] \div g) < b[1] * (a[2] \div g)

RLe(a, b) == ~RLt(b, a)

\* Python's min(a, b) and max(a, b).
RMin(a, b) == IF RLt(b, a) THEN b ELSE a
RMax(a, b) == IF RLt(a, b) THEN b ELSE a

\* A power whose 0 ** 0 is 0.
RECURSIVE RPow_zero_base(_, _)
RPow_zero_base(r, n) ==
    IF r = <<0, 1>> THEN <<0, 1>>
    ELSE IF n = 0 THEN <<1, 1>> ELSE RMul(r, RPow_zero_base(r, n - 1))

\* r ** n for a natural exponent n; Python's 0.0 ** 0 is 1.0.
RECURSIVE RPow(_, _)
RPow(r, n) == IF n = 0 THEN R(1) ELSE RMul(r, RPow(r, n - 1))

(***************************************************************************)
(* Program constants and the bounds of the model.                          *)
(***************************************************************************)
\* Game.__init__ defaults: the viewport handed to Camera(width, height).
Width == 800
Height == 600

\* Camera.__init__: min_zoom = 1.0, max_zoom = 4.0.
MinZoomDefault == 1
MaxZoomDefault == 4

\* Camera updates are calibrated at 60 updates per second (dt * 60).
CalibrationRate == 60

\* The frame rate passed to Game(fps=...): 20 frames per second, so that the
\* clock's whole milliseconds (50 per frame) are whole calibration ticks.
Fps == 20

\* Calls a caller makes on the camera in one behaviour.
MaxCalls == 6

\* Frames a run of the loop may present.
MaxFrames == 2

\* Sixtieths of a second a measured run of update() calls covers at most.
MaxTicks == 4

\* Calls a caller makes on the sprite in one behaviour.
MaxSpriteCalls == 5

None == <<>>

\* Points passed to follow().
FollowArgs == {<<R(400), R(300)>>, <<R(2000), R(2000)>>}

\* Rectangles passed to set_bounds(min_x, min_y, max_x, max_y): one narrower
\* than the viewport on y at zoom 1, one smaller than the viewport on both
\* axes, one inverted.
BoundsArgs ==
    { <<R(0), R(0), R(1000), R(500)>>,
      <<R(0), R(0), R(100), R(100)>>,
      <<R(1000), R(500), R(0), R(0)>> }

\* Values assigned to camera.zoom: negative, zero, in range, above max_zoom.
ZoomArgs == {R(-1), R(0), R(1), R(2), R(5)}

\* Values of camera.smoothing: the default 0.1 and 1.0 (no smoothing).
SmoothingArgs == {Frac(1, 10), R(1)}

\* Values of camera.smoothing under Game.run, and of camera.zoom assigned by
\* the frame callback.
GameSmoothingArgs == {Frac(1, 2), R(1)}
GameZoomArgs == {R(1), R(2)}

\* Maps Game.load_tilemap loads: 30 x 15 tiles of 32 x 32 pixels.
TileMapArgs ==
    { [width |-> 30, height |-> 15, tile_width |-> 32, tile_height |-> 32,
       _animation_time |-> R(0)] }

\* Milliseconds an iteration's own work takes, as the clock measures it.
WorkMsArgs == {10, 100}

\* Batches pygame.event.get() returns.
EventBatches ==
    { <<>>, <<"KEYDOWN">>, <<"QUIT">>, <<"KEYDOWN", "QUIT">>,
      <<"KEYDOWN", "MOUSEMOTION">> }

\* dt arguments of update(), whole multiples of 1/60 s.
DtArgs == {Frac(k, CalibrationRate) : k \in 0..1}

VARIABLES
    x, y,                   \* Camera.x, Camera.y
    zoom,                   \* Camera.zoom
    bounds,                 \* Camera.bounds: None or <<min_x, min_y, max_x, max_y>>
    smoothing,              \* Camera.smoothing
    _target_x, _target_y,   \* Camera._target_x, Camera._target_y
    _follow_x, _follow_y,   \* Camera._follow_x, Camera._follow_y
    last,                   \* the last call on the camera: [op, dt, raised]
    settled,                \* a clamp has run since bounds or zoom last changed
    calls,                  \* calls made on the camera so far
    pc,                     \* Game: where the program stands
    tilemap,                \* Internals.tilemap: None or the loaded map
    internals_dt,           \* Internals.dt
    events,                 \* Internals.events: the batch of this iteration
    ev_i,                   \* Game.run: index of the event the for loop is at
    run_zoom,               \* Game.run: the local zoom of this iteration
    render_surface,         \* Game.run: None or the size of the surface
    last_zoom,              \* Game.run: last_zoom
    screen,                 \* Internals.screen: the surface drawn on
    frame,                  \* the steps this iteration has performed so far
    presented,              \* frames presented (display flips) so far
    trip,                   \* the coordinate conversions of the current chain
    start_x, start_y,       \* the camera's position before the first update
    ticks,                  \* sixtieths of a second the updates have covered
    updates,                \* update() calls made since the start position
    _animations,            \* AnimatedSprite._animations: name -> None or animation
    _current_animation,     \* AnimatedSprite._current_animation
    _current_frame,         \* AnimatedSprite._current_frame
    _elapsed,               \* AnimatedSprite._elapsed, in time units
    _playing,               \* AnimatedSprite._playing
    _image,                 \* AnimatedSprite._image: the blank surface or <<name, index>>
    sp_pc,                  \* AnimatedSprite.update: where the call stands
    sp_last,                \* the last call on the sprite: [op, skipped, raised]
    sp_acc,                 \* dt accumulated since play from frame 0, or -1
    sp_calls                \* calls made on the sprite so far

camVars == <<x, y, zoom, bounds, smoothing, _target_x, _target_y,
             _follow_x, _follow_y, last, settled>>

gameVars == <<pc, tilemap, internals_dt, events, ev_i, run_zoom, render_surface,
              last_zoom, screen, frame, presented>>

\* The variables outside the camera and the frame loop.
smoothVars == <<start_x, start_y, ticks, updates>>

spriteVars == <<_animations, _current_animation, _current_frame, _elapsed,
                _playing, _image, sp_pc, sp_last, sp_acc, sp_calls>>

extraVars == <<trip, smoothVars, spriteVars>>

vars == <<camVars, calls, gameVars, extraVars>>

min_zoom == R(MinZoomDefault)
max_zoom == R(MaxZoomDefault)

Call(op, dt, raised) == [op |-> op, dt |-> dt, raised |-> raised]

(***************************************************************************)
(* Camera                                                                  *)
(***************************************************************************)
\* Camera.view_width / view_height at zoom z (z # 0).
view_width(z) == RDiv(R(Width), z)
view_height(z) == RDiv(R(Height), z)

\* Camera.__init__, and the smoothing s the caller assigns before use.
CameraInit(s) ==
    /\ x = R(0) /\ y = R(0)
    /\ zoom = R(1)
    /\ bounds = None
    /\ smoothing = s
    /\ _target_x = R(0) /\ _target_y = R(0)
    /\ _follow_x = R(0) /\ _follow_y = R(0)
    /\ last = Call("init", R(0), FALSE)
    /\ settled = FALSE

\* Camera._update_target: the target for follow point (fx, fy) at zoom z.
_update_target(fx, fy, z) ==
    <<RSub(fx, RDiv(view_width(z), R(2))), RSub(fy, RDiv(view_height(z), R(2)))>>

\* Camera.follow: the division in view_width raises at zoom 0, after the
\* follow point was stored and before the target is.
follow(tx, ty) ==
    /\ _follow_x' = tx
    /\ _follow_y' = ty
    /\ IF zoom = R(0)
       THEN /\ UNCHANGED <<_target_x, _target_y>>
            /\ last' = Call("follow", R(0), TRUE)
       ELSE /\ _target_x' = _update_target(tx, ty, zoom)[1]
            /\ _target_y' = _update_target(tx, ty, zoom)[2]
            /\ last' = Call("follow", R(0), FALSE)
    /\ UNCHANGED <<x, y, zoom, bounds, smoothing, settled>>

\* Camera.set_bounds
set_bounds(b) ==
    /\ bounds' = b
    /\ last' = Call("set_bounds", R(0), FALSE)
    /\ settled' = FALSE
    /\ UNCHANGED <<x, y, zoom, smoothing, _target_x, _target_y,
                   _follow_x, _follow_y>>

\* Camera.clear_bounds
clear_bounds ==
    /\ bounds' = None
    /\ last' = Call("clear_bounds", R(0), FALSE)
    /\ settled' = FALSE
    /\ UNCHANGED <<x, y, zoom, smoothing, _target_x, _target_y,
                   _follow_x, _follow_y>>

\* The camera's zoom interface: the public attribute, assigned directly.
set_zoom(z) ==
    /\ zoom' = z
    /\ last' = Call("set_zoom", R(0), FALSE)
    /\ settled' = FALSE
    /\ UNCHANGED <<x, y, bounds, smoothing, _target_x, _target_y,
                   _follow_x, _follow_y>>

\* A clamp that forgets the upper edge max - view_size.
clamp_axis_lower_only(pos, mn, mx, view) ==
    LET max_camera == RSub(mx, view)
    IN  IF RLt(max_camera, mn)
        THEN RDiv(RSub(RAdd(mn, mx), view), R(2))
        ELSE RMax(mn, pos)

\* A clamp without the centring branch (an oversized view clamps to min).
clamp_axis_never_centres(pos, mn, mx, view) ==
    RMax(mn, RMin(pos, RSub(mx, view)))

\* One axis of Camera._clamp_to_bounds.
clamp_axis(pos, mn, mx, view) ==
    LET max_camera == RSub(mx, view)
    IN  IF RLt(max_camera, mn)
        THEN RDiv(RSub(RAdd(mn, mx), view), R(2))
        ELSE RMax(mn, RMin(pos, max_camera))

\* Camera._clamp_to_bounds raises when bounds are set at zoom 0 (view_width
\* divides by zoom), before it assigns anything.
ClampRaises == bounds # None /\ zoom = R(0)

\* Camera._clamp_to_bounds applied to position (px, py), when it returns.
_clamp_to_bounds(px, py) ==
    IF bounds = None
    THEN <<px, py>>
    ELSE <<clamp_axis(px, bounds[1], bounds[3], view_width(zoom)),
           clamp_axis(py, bounds[2], bounds[4], view_height(zoom))>>

\* A snap that clamps the position it holds without moving it to the target.
snap_to_target_keeps_position ==
    /\ IF ClampRaises
       THEN /\ UNCHANGED <<x, y>>
            /\ last' = Call("snap_to_target", R(0), TRUE)
            /\ settled' = FALSE
       ELSE /\ x' = _clamp_to_bounds(x, y)[1]
            /\ y' = _clamp_to_bounds(x, y)[2]
            /\ last' = Call("snap_to_target", R(0), FALSE)
            /\ settled' = TRUE
    /\ UNCHANGED <<zoom, bounds, smoothing, _target_x, _target_y,
                   _follow_x, _follow_y>>

\* Camera.snap_to_target
snap_to_target ==
    /\ IF ClampRaises
       THEN /\ x' = _target_x
            /\ y' = _target_y
            /\ last' = Call("snap_to_target", R(0), TRUE)
            /\ settled' = FALSE
       ELSE /\ x' = _clamp_to_bounds(_target_x, _target_y)[1]
            /\ y' = _clamp_to_bounds(_target_x, _target_y)[2]
            /\ last' = Call("snap_to_target", R(0), FALSE)
            /\ settled' = TRUE
    /\ UNCHANGED <<zoom, bounds, smoothing, _target_x, _target_y,
                   _follow_x, _follow_y>>

\* dt * 60 as a natural number (dt is a whole multiple of 1/60 s).
Exponent(dt) == (dt[1] * CalibrationRate) \div dt[2]

\* A factor that grows linearly with dt: smoothing * (dt * 60).
smoothing_factor_linear(dt) == RMul(smoothing, R(Exponent(dt)))

\* smoothing_factor = 1.0 - (1.0 - self.smoothing) ** (dt * 60)
smoothing_factor(dt) == RSub(R(1), RPow(RSub(R(1), smoothing), Exponent(dt)))

\* The smoothed position of one axis.
Smoothed(pos, target, dt) ==
    RAdd(pos, RMul(RSub(target, pos), smoothing_factor(dt)))

\* Camera.update
update(dt) ==
    /\ IF ClampRaises
       THEN /\ x' = Smoothed(x, _target_x, dt)
            /\ y' = Smoothed(y, _target_y, dt)
            /\ last' = Call("update", dt, TRUE)
            /\ settled' = FALSE
       ELSE /\ x' = _clamp_to_bounds(Smoothed(x, _target_x, dt),
                                     Smoothed(y, _target_y, dt))[1]
            /\ y' = _clamp_to_bounds(Smoothed(x, _target_x, dt),
                                     Smoothed(y, _target_y, dt))[2]
            /\ last' = Call("update", dt, FALSE)
            /\ settled' = TRUE
    /\ UNCHANGED <<zoom, bounds, smoothing, _target_x, _target_y,
                   _follow_x, _follow_y>>

(***************************************************************************)
(* The camera driven by an arbitrary caller.                               *)
(***************************************************************************)
\* Game before run() is entered (the loop's variables are not yet set).
GameIdle ==
    /\ pc = "idle"
    /\ tilemap = None
    /\ internals_dt = R(0)
    /\ events = <<>>
    /\ ev_i = 0
    /\ run_zoom = R(0)
    /\ render_surface = None
    /\ last_zoom = R(0)
    /\ screen = "display"
    /\ frame = <<>>
    /\ presented = 0

\* No conversion has been called.
ConvIdle == trip = <<>>

\* No run of updates is being measured.
SmoothIdle ==
    /\ start_x = R(0) /\ start_y = R(0)
    /\ ticks = 0
    /\ updates = 0

\* Names of animations.
AnimNames == {"walk", "idle"}

\* _current_animation when no animation is set (None).
NoAnimation == "None"

\* The 1 x 1 surface __init__ creates.
BlankSurface == <<>>

SpriteCall(op, skipped, raised) ==
    [op |-> op, skipped |-> skipped, raised |-> raised]

\* AnimatedSprite.__init__
SpriteInit ==
    /\ _animations = [n \in AnimNames |-> None]
    /\ _current_animation = NoAnimation
    /\ _current_frame = 0
    /\ _elapsed = 0
    /\ _playing = FALSE
    /\ _image = BlankSurface
    /\ sp_pc = "idle"
    /\ sp_last = SpriteCall("init", FALSE, FALSE)
    /\ sp_acc = -1
    /\ sp_calls = 0

ExtraIdle == ConvIdle /\ SmoothIdle /\ SpriteInit

Init ==
    /\ \E s \in SmoothingArgs : CameraInit(s)
    /\ calls = 0
    /\ GameIdle
    /\ ExtraIdle

\* One call of the caller.
Called ==
    /\ calls < MaxCalls /\ calls' = calls + 1
    /\ UNCHANGED <<gameVars, extraVars>>

Follow == Called /\ \E p \in FollowArgs : follow(p[1], p[2])

SetBounds == Called /\ \E b \in BoundsArgs : set_bounds(b)

ClearBounds == Called /\ clear_bounds

SetZoom == Called /\ \E z \in ZoomArgs : set_zoom(z)

SnapToTarget == Called /\ snap_to_target

Update == Called /\ \E d \in DtArgs : update(d)

Next ==
    \/ Follow
    \/ SetBounds
    \/ ClearBounds
    \/ SetZoom
    \/ SnapToTarget
    \/ Update

Spec == Init /\ [][Next]_vars

(***************************************************************************)
(* Game: load_tilemap and the frame loop run().                            *)
(***************************************************************************)
\* int(v) of a non-negative float.
IntOf(v) == v[1] \div v[2]

\* TileMap.pixel_width / pixel_height
pixel_width(m) == m.width * m.tile_width
pixel_height(m) == m.height * m.tile_height

\* pygame's Clock.tick(fps), in milliseconds: the time passed since the last
\* tick, after waiting until 1000 / fps (whole) milliseconds have passed.
ClockTick(work, fps) == IF work < 1000 \div fps THEN 1000 \div fps ELSE work

\* Game.__init__, with the smoothing the caller assigns before run().
GameInit ==
    /\ \E s \in GameSmoothingArgs : CameraInit(s)
    /\ calls = 0
    /\ pc = "setup"
    /\ tilemap = None
    /\ internals_dt = R(0)
    /\ events = <<>>
    /\ ev_i = 0
    /\ run_zoom = R(0)
    /\ render_surface = None
    /\ last_zoom = R(0)
    /\ screen = "display"
    /\ frame = <<>>
    /\ presented = 0
    /\ ExtraIdle

\* Game.load_tilemap
load_tilemap ==
    /\ pc = "setup"
    /\ \E m \in TileMapArgs :
          /\ tilemap' = m
          /\ set_bounds(<<R(0), R(0), R(pixel_width(m)), R(pixel_height(m))>>)
    /\ UNCHANGED <<calls, pc, internals_dt, events, ev_i, run_zoom,
                   render_surface, last_zoom, screen, frame, presented,
                   extraVars>>

\* The caller's set-up before run(), as examples/click_to_move does it:
\* camera.follow(player.x, player.y) and camera.snap_to_target().
setup_follow ==
    /\ pc = "setup"
    /\ \E p \in FollowArgs : follow(p[1], p[2])
    /\ UNCHANGED <<calls, gameVars,
                   extraVars>>

setup_snap ==
    /\ pc = "setup"
    /\ snap_to_target
    /\ UNCHANGED <<calls, gameVars,
                   extraVars>>

\* Game.run is entered: render_surface = None, last_zoom = 0.0.
run_enter ==
    /\ pc = "setup"
    /\ pc' = "tick"
    /\ render_surface' = None
    /\ last_zoom' = R(0)
    /\ UNCHANGED <<camVars, calls, tilemap, internals_dt, events, ev_i,
                   run_zoom, screen, frame, presented,
                   extraVars>>

\* dt = self._clock.tick(self._fps) / 1000.0; self._internals.dt = dt
run_tick ==
    /\ pc = "tick"
    /\ presented < MaxFrames
    /\ \E work \in WorkMsArgs : internals_dt' = Frac(ClockTick(work, Fps), 1000)
    /\ frame' = <<>>
    /\ pc' = "events"
    /\ UNCHANGED <<camVars, calls, tilemap, events, ev_i, run_zoom,
                   render_surface, last_zoom, screen, presented,
                   extraVars>>

\* self._internals.events = pygame.event.get()
run_events ==
    /\ pc = "events"
    /\ \E batch \in EventBatches : events' = batch
    /\ ev_i' = 1
    /\ pc' = "quit_check"
    /\ UNCHANGED <<camVars, calls, tilemap, internals_dt, run_zoom,
                   render_surface, last_zoom, screen, frame, presented,
                   extraVars>>

\* A quit check that looks at the first event of the batch only.
run_quit_check_first_only ==
    /\ pc = "quit_check"
    /\ IF events # <<>> /\ events[1] = "QUIT"
       THEN pc' = "exited"
       ELSE pc' = "tilemap_update"
    /\ UNCHANGED <<camVars, calls, tilemap, internals_dt, events, ev_i,
                   run_zoom, render_surface, last_zoom, screen, frame,
                   presented,
                   extraVars>>

\* One turn of: for event in events: if event.type == QUIT: quit; sys.exit()
run_quit_check ==
    /\ pc = "quit_check"
    /\ IF ev_i > Len(events)
       THEN pc' = "tilemap_update" /\ UNCHANGED ev_i
       ELSE IF events[ev_i] = "QUIT"
            THEN pc' = "exited" /\ UNCHANGED ev_i
            ELSE ev_i' = ev_i + 1 /\ UNCHANGED pc
    /\ UNCHANGED <<camVars, calls, tilemap, internals_dt, events, run_zoom,
                   render_surface, last_zoom, screen, frame, presented,
                   extraVars>>

\* if self._internals.tilemap: self._internals.tilemap.update(dt)
run_tilemap_update ==
    /\ pc = "tilemap_update"
    /\ IF tilemap # None
       THEN /\ tilemap' = [tilemap EXCEPT
                              !._animation_time = RAdd(@, internals_dt)]
            /\ frame' = Append(frame, "tilemap.update")
       ELSE UNCHANGED <<tilemap, frame>>
    /\ pc' = "camera_update"
    /\ UNCHANGED <<camVars, calls, internals_dt, events, ev_i, run_zoom,
                   render_surface, last_zoom, screen, presented,
                   extraVars>>

\* self._internals.camera.update(dt)
run_camera_update ==
    /\ pc = "camera_update"
    /\ update(internals_dt)
    /\ frame' = Append(frame, "camera.update")
    /\ pc' = "surface"
    /\ UNCHANGED <<calls, tilemap, internals_dt, events, ev_i, run_zoom,
                   render_surface, last_zoom, screen, presented,
                   extraVars>>

\* The choice of the surface to draw on (engine.py lines 144 to 159).
run_surface ==
    /\ pc = "surface"
    /\ run_zoom' = zoom
    /\ IF zoom # R(1)
       THEN /\ IF render_surface = None \/ zoom # last_zoom
               THEN /\ render_surface' = <<IntOf(RDiv(R(Width), zoom)),
                                           IntOf(RDiv(R(Height), zoom))>>
                    /\ last_zoom' = zoom
               ELSE UNCHANGED <<render_surface, last_zoom>>
            /\ screen' = "render_surface"
       ELSE /\ screen' = "display"
            /\ UNCHANGED <<render_surface, last_zoom>>
    /\ pc' = "render"
    /\ UNCHANGED <<camVars, calls, tilemap, internals_dt, events, ev_i,
                   frame, presented,
                   extraVars>>

\* if self._internals.tilemap: self._internals.tilemap.render(target, offset)
run_render ==
    /\ pc = "render"
    /\ frame' = IF tilemap # None THEN Append(frame, "tilemap.render") ELSE frame
    /\ pc' = "callback"
    /\ UNCHANGED <<camVars, calls, tilemap, internals_dt, events, ev_i,
                   run_zoom, render_surface, last_zoom, screen, presented,
                   extraVars>>

\* What the frame callback does to the camera: it follows a point (as
\* examples/click_to_move does) or assigns a zoom.
game_loop ==
    \/ \E p \in FollowArgs : follow(p[1], p[2])
    \/ \E z \in GameZoomArgs : set_zoom(z)

\* A loop that invokes the callback before the camera update.
run_callback_early ==
    /\ pc \in {"camera_update", "callback"}
    /\ game_loop
    /\ frame' = Append(frame, "game_loop")
    /\ pc' = IF pc = "callback" THEN "present" ELSE pc
    /\ UNCHANGED <<calls, tilemap, internals_dt, events, ev_i, run_zoom,
                   render_surface, last_zoom, screen, presented,
                   extraVars>>

\* game_loop(self._internals)
run_callback ==
    /\ pc = "callback"
    /\ game_loop
    /\ frame' = Append(frame, "game_loop")
    /\ pc' = "present"
    /\ UNCHANGED <<calls, tilemap, internals_dt, events, ev_i, run_zoom,
                   render_surface, last_zoom, screen, presented,
                   extraVars>>

\* The scaled blit at zoom # 1.0, then pygame.display.flip().
run_present ==
    /\ pc = "present"
    /\ frame' = IF run_zoom # R(1) /\ render_surface # None
                THEN frame \o <<"transform.scale", "display.flip">>
                ELSE Append(frame, "display.flip")
    /\ presented' = presented + 1
    /\ pc' = "tick"
    /\ UNCHANGED <<camVars, calls, tilemap, internals_dt, events, ev_i,
                   run_zoom, render_surface, last_zoom, screen,
                   extraVars>>

NextGame ==
    \/ load_tilemap
    \/ setup_follow
    \/ setup_snap
    \/ run_enter
    \/ run_tick
    \/ run_events
    \/ run_quit_check
    \/ run_tilemap_update
    \/ run_camera_update
    \/ run_surface
    \/ run_render
    \/ run_callback
    \/ run_present

SpecGame == GameInit /\ [][NextGame]_vars

(***************************************************************************)
(* Properties of the camera.                                               *)
(***************************************************************************)
\* The view size of each axis is defined (zoom # 0) and bounds are set.
Bounded == bounds # None /\ zoom # R(0)

\* view_size <= max - min on the axis / view_size > max - min on the axis.
NarrowX == Bounded /\ RLe(view_width(zoom), RSub(bounds[3], bounds[1]))
NarrowY == Bounded /\ RLe(view_height(zoom), RSub(bounds[4], bounds[2]))
OversizedX == Bounded /\ RLt(RSub(bounds[3], bounds[1]), view_width(zoom))
OversizedY == Bounded /\ RLt(RSub(bounds[4], bounds[2]), view_height(zoom))

\* The upper edge max - view_size of each axis, and the centred position.
MaxCameraX == RSub(bounds[3], view_width(zoom))
MaxCameraY == RSub(bounds[4], view_height(zoom))
CentreX == RDiv(RSub(RAdd(bounds[1], bounds[3]), view_width(zoom)), R(2))
CentreY == RDiv(RSub(RAdd(bounds[2], bounds[4]), view_height(zoom)), R(2))

\* The last call was an update or a snap and it returned.
Moved == last.op \in {"update", "snap_to_target"} /\ ~last.raised

\* C1: with bounds set and view_size <= max - min on an axis, once update()
\* or snap_to_target() has returned, the position on that axis lies in
\* [min, max - view_size], and stays there until bounds or zoom next change.
C1_PositionWithinBounds ==
    settled =>
        /\ NarrowX => RLe(bounds[1], x) /\ RLe(x, MaxCameraX)
        /\ NarrowY => RLe(bounds[2], y) /\ RLe(y, MaxCameraY)

\* C1 witness: an update returned with both axes narrow and the position held
\* at the upper edge, short of the target.
C1_Witness ==
    /\ settled /\ last.op = "update" /\ NarrowX /\ NarrowY
    /\ x = MaxCameraX /\ RLt(x, _target_x)
    /\ y = MaxCameraY /\ RLt(y, _target_y)

\* C2: with bounds set and view_size > max - min on an axis, every update()
\* and snap_to_target() that returns leaves the position on that axis at
\* exactly (min + max - view_size) / 2.
C2_OversizedViewCentres ==
    Moved =>
        /\ OversizedX => x = CentreX
        /\ OversizedY => y = CentreY

\* C2 witness: a snap returned with the view oversized on y only, the
\* position centred below min_y while the target is elsewhere.
C2_Witness ==
    /\ Moved /\ last.op = "snap_to_target"
    /\ OversizedY /\ NarrowX
    /\ y = CentreY /\ RLt(y, bounds[2]) /\ y # _target_y

\* C3: min_zoom <= zoom <= max_zoom in every reachable state.
C3_ZoomInRange == RLe(min_zoom, zoom) /\ RLe(zoom, max_zoom)

\* follow() has been called (no point of FollowArgs is the initial (0, 0)).
Followed == <<_follow_x, _follow_y>> \in FollowArgs

\* C4: once follow() has been called, in every state whose zoom lies in
\* [min_zoom, max_zoom], target_position is
\* follow_target - (viewport size / zoom) / 2 on both axes (the target is
\* recomputed when follow() is called and when zoom changes).
C4_TargetTracksFollow ==
    (Followed /\ C3_ZoomInRange) =>
        /\ _target_x = RSub(_follow_x, RDiv(view_width(zoom), R(2)))
        /\ _target_y = RSub(_follow_y, RDiv(view_height(zoom), R(2)))

\* The value the clamp of the specification gives position p on an axis with
\* bound [mn, mx] and view size v <= mx - mn.
Nearest(p, mn, mx, v) ==
    IF RLt(p, mn) THEN mn
    ELSE IF RLt(RSub(mx, v), p) THEN RSub(mx, v)
    ELSE p

\* C5: after snap_to_target() returns, position is target_position when no
\* bounds are set, and with bounds it is the clamp of target_position: the
\* nearest point of [min, max - view_size], or the centre when the view is
\* oversized.
C5_SnapIsClampedTarget ==
    (last.op = "snap_to_target" /\ ~last.raised) =>
        /\ bounds = None => x = _target_x /\ y = _target_y
        /\ NarrowX => x = Nearest(_target_x, bounds[1], bounds[3], view_width(zoom))
        /\ NarrowY => y = Nearest(_target_y, bounds[2], bounds[4], view_height(zoom))
        /\ OversizedX => x = CentreX
        /\ OversizedY => y = CentreY

\* C5 witness: a snap returned without bounds at a target away from the
\* origin the camera started at.
C5_Witness ==
    /\ last.op = "snap_to_target" /\ ~last.raised
    /\ bounds = None /\ Followed
    /\ x = _target_x /\ y = _target_y /\ x # R(0)

\* C6 (as stated): update(0) leaves position as it was.
C6_UpdateZeroIsNoOp ==
    [][(last'.op = "update" /\ last'.dt = R(0)) => (x' = x /\ y' = y)]_vars

\* C6 (amended): update(0) does not smooth. It leaves position as it was
\* when no bounds are set (or the clamp raised), and otherwise applies only
\* the bounds clamp to the position held before the call.
C6_UpdateZeroOnlyClamps ==
    [][(last'.op = "update" /\ last'.dt = R(0)) =>
          /\ (bounds = None \/ last'.raised) => (x' = x /\ y' = y)
          /\ NarrowX => x' = Nearest(x, bounds[1], bounds[3], view_width(zoom))
          /\ NarrowY => y' = Nearest(y, bounds[2], bounds[4], view_height(zoom))
          /\ OversizedX => x' = CentreX
          /\ OversizedY => y' = CentreY]_vars

\* C6 witness: update(0) returned with smoothing 1.0, away from the target,
\* with bounds set.
C6_Witness ==
    /\ last.op = "update" /\ last.dt = R(0) /\ ~last.raised
    /\ smoothing = R(1) /\ bounds # None
    /\ <<x, y>> # <<_target_x, _target_y>>

\* C10: the bounds are absent or satisfy min_x <= max_x and min_y <= max_y.
C10_BoundsWellFormed ==
    bounds # None => RLe(bounds[1], bounds[3]) /\ RLe(bounds[2], bounds[4])

(***************************************************************************)
(* Properties of the frame loop.                                           *)
(***************************************************************************)
Steps(f) == {f[i] : i \in DOMAIN f}

\* The place of each step in the fixed order of an iteration.
Rank(step) ==
    CASE step = "tilemap.update" -> 1
      [] step = "camera.update" -> 2
      [] step = "tilemap.render" -> 3
      [] step = "game_loop" -> 4
      [] step = "transform.scale" -> 5
      [] step = "display.flip" -> 6

\* C7: the steps of an iteration happen in the fixed order animation update,
\* camera update, callback, present, each at most once: the callback runs
\* only after the camera update of its iteration (and that after the
\* animation update, when a map is loaded), and the flip only after the
\* callback.
C7_FrameOrder ==
    /\ \A i, j \in DOMAIN frame : i < j => Rank(frame[i]) < Rank(frame[j])
    /\ "display.flip" \in Steps(frame) => "game_loop" \in Steps(frame)
    /\ "game_loop" \in Steps(frame) => "camera.update" \in Steps(frame)
    /\ ("camera.update" \in Steps(frame) /\ tilemap # None)
          => "tilemap.update" \in Steps(frame)

\* C7 witness: the second iteration, with a map loaded, has run all its steps.
C7_Witness ==
    /\ presented = 2
    /\ frame = <<"tilemap.update", "camera.update", "tilemap.render",
                 "game_loop", "display.flip">>

HasQuit(batch) == \E i \in DOMAIN batch : batch[i] = "QUIT"

\* C8: when the batch an iteration collected holds a quit event, wherever in
\* the batch, the iteration performs no animation update, camera update,
\* render, callback or present: the loop is still scanning the batch or has
\* exited.
C8_QuitStopsFrame ==
    HasQuit(events) => (pc \in {"quit_check", "exited"} /\ frame = <<>>)

\* C8 witness: the loop exited on a quit event that was second in its batch,
\* after it had presented a frame.
C8_Witness ==
    /\ pc = "exited" /\ events = <<"KEYDOWN", "QUIT">> /\ ev_i = 2
    /\ presented >= 1

\* C9: the dt of every iteration is at most 1 / target_fps.
C9_DtCapped == RLe(internals_dt, Frac(1, Fps))

(***************************************************************************)
(* Internals: the coordinate conversions (engine.py lines 24 to 60).       *)
(***************************************************************************)
\* Camera zooms the conversions run at: zero, in range, fractional.
ConvZoomArgs == {R(0), R(1), Frac(3, 2), R(4)}

\* Camera positions the conversions run at.
ConvPositionArgs == {<<R(0), R(0)>>, <<R(200), R(150)>>, <<R(-350), Frac(-125, 2)>>}

\* Maps the conversions run with: 32 x 32 tiles, and 16 x 24 tiles.
ConvTileMapArgs ==
    TileMapArgs \cup
    { [width |-> 10, height |-> 10, tile_width |-> 16, tile_height |-> 24,
       _animation_time |-> R(0)] }

\* Screen and world points (floats), and tile coordinates (ints).
PointArgs ==
    { <<R(0), R(0)>>, <<R(100), R(50)>>, <<Frac(-1, 2), R(95)>>,
      <<R(31), R(-32)>> }
TileArgs == {<<0, 0>>, <<3, 5>>, <<-1, -2>>}

\* The outcome of a call that raises ZeroDivisionError.
Raises == <<"ZeroDivisionError">>

\* Internals.screen_to_world; the division raises at zoom 0.
screen_to_world(sx, sy) ==
    IF zoom = R(0) THEN Raises
    ELSE <<RAdd(RDiv(sx, zoom), x), RAdd(RDiv(sy, zoom), y)>>

\* A world_to_screen that scales the world point before it subtracts the
\* camera position.
world_to_screen_scales_first(wx, wy) ==
    <<RSub(RMul(wx, zoom), x), RSub(RMul(wy, zoom), y)>>

\* Internals.world_to_screen
world_to_screen(wx, wy) ==
    <<RMul(RSub(wx, x), zoom), RMul(RSub(wy, y), zoom)>>

\* A division that rounds toward zero, as int(v / w) does.
FloorDiv_truncates(v, w) ==
    IF v[1] < 0 THEN -((-v[1]) \div (v[2] * w)) ELSE v[1] \div (v[2] * w)

\* v // w for a float v and a positive int w, then int().
FloorDiv(v, w) == v[1] \div (v[2] * w)

\* Internals.world_to_tile
world_to_tile(wx, wy) ==
    IF tilemap = None THEN None
    ELSE <<FloorDiv(wx, tilemap.tile_width), FloorDiv(wy, tilemap.tile_height)>>

\* Internals.tile_to_world
tile_to_world(tile_x, tile_y) ==
    IF tilemap = None THEN None
    ELSE <<R(tile_x * tilemap.tile_width), R(tile_y * tilemap.tile_height)>>

\* Internals.screen_to_tile: the world point is computed first.
screen_to_tile(sx, sy) ==
    LET world == screen_to_world(sx, sy)
    IN  IF world = Raises THEN Raises
        ELSE world_to_tile(world[1], world[2])

\* Internals.tile_to_screen
tile_to_screen(tile_x, tile_y) ==
    LET world == tile_to_world(tile_x, tile_y)
    IN  IF world = None THEN None ELSE world_to_screen(world[1], world[2])

\* The kind of point each conversion takes and returns.
ArgKind(op) ==
    CASE op \in {"screen_to_world", "screen_to_tile"} -> "screen"
      [] op \in {"world_to_screen", "world_to_tile"} -> "world"
      [] op \in {"tile_to_world", "tile_to_screen"} -> "tile"
ResKind(op) ==
    CASE op \in {"world_to_screen", "tile_to_screen"} -> "screen"
      [] op \in {"screen_to_world", "tile_to_world"} -> "world"
      [] op \in {"world_to_tile", "screen_to_tile"} -> "tile"

\* The record of one conversion call.
Conv(op, arg, out) ==
    [op |-> op, arg |-> arg,
     res |-> IF out = Raises THEN None ELSE out,
     raised |-> out = Raises]

\* The arguments a caller hands to conversion op: a point of its own, or the
\* result of the conversion called just before.
FreshArgs(op) == IF ArgKind(op) = "tile" THEN TileArgs ELSE PointArgs
Chainable(op) ==
    /\ Len(trip) = 1
    /\ trip[1].res # None
    /\ ResKind(trip[1].op) = ArgKind(op)

\* The outcome of conversion op called with (a, b).
Outcome(op, a, b) ==
    CASE op = "screen_to_world" -> screen_to_world(a, b)
      [] op = "world_to_screen" -> world_to_screen(a, b)
      [] op = "world_to_tile" -> world_to_tile(a, b)
      [] op = "tile_to_world" -> tile_to_world(a, b)
      [] op = "screen_to_tile" -> screen_to_tile(a, b)
      [] op = "tile_to_screen" -> tile_to_screen(a, b)

\* A caller calls conversion op on a point of its own, or on the result of
\* the conversion called just before. No conversion assigns to the camera
\* or to the map.
Convert(op) ==
    /\ \/ \E p \in FreshArgs(op) :
             trip' = <<Conv(op, p, Outcome(op, p[1], p[2]))>>
       \/ /\ Chainable(op)
          /\ trip' = Append(trip, Conv(op, trip[1].res,
                                       Outcome(op, trip[1].res[1], trip[1].res[2])))
    /\ UNCHANGED <<camVars, calls, gameVars, smoothVars, spriteVars>>

ScreenToWorld == pc = "conv" /\ Convert("screen_to_world")

WorldToScreen == pc = "conv" /\ Convert("world_to_screen")

WorldToTile == pc = "conv" /\ Convert("world_to_tile")

TileToWorld == pc = "conv" /\ Convert("tile_to_world")

ScreenToTile == pc = "conv" /\ Convert("screen_to_tile")

TileToScreen == pc = "conv" /\ Convert("tile_to_screen")

\* An Internals whose camera stands at some position and zoom, with or
\* without a map.
InitConv ==
    /\ \E z \in ConvZoomArgs, p \in ConvPositionArgs :
          /\ x = p[1] /\ y = p[2]
          /\ zoom = z
    /\ bounds = None
    /\ smoothing = Frac(1, 10)
    /\ _target_x = R(0) /\ _target_y = R(0)
    /\ _follow_x = R(0) /\ _follow_y = R(0)
    /\ last = Call("init", R(0), FALSE)
    /\ settled = FALSE
    /\ calls = 0
    /\ pc = "conv"
    /\ tilemap \in {None} \cup ConvTileMapArgs
    /\ internals_dt = R(0)
    /\ events = <<>>
    /\ ev_i = 0
    /\ run_zoom = R(0)
    /\ render_surface = None
    /\ last_zoom = R(0)
    /\ screen = "display"
    /\ frame = <<>>
    /\ presented = 0
    /\ ExtraIdle

NextConv ==
    \/ ScreenToWorld
    \/ WorldToScreen
    \/ WorldToTile
    \/ TileToWorld
    \/ ScreenToTile
    \/ TileToScreen

SpecConv == InitConv /\ [][NextConv]_vars

(***************************************************************************)
(* Properties of the conversions.                                          *)
(***************************************************************************)
\* The chain is first then second, the second applied to the first's result.
Chain(first, second) ==
    Len(trip) = 2 /\ trip[1].op = first /\ trip[2].op = second

\* C11: for a zoom in [min_zoom, max_zoom], world_to_screen of
\* screen_to_world of a screen point is that point, and screen_to_world of
\* world_to_screen of a world point is that point.
C11_TransformsAreInverse ==
    C3_ZoomInRange =>
        /\ Chain("screen_to_world", "world_to_screen") => trip[2].res = trip[1].arg
        /\ Chain("world_to_screen", "screen_to_world") => trip[2].res = trip[1].arg

\* C11 witness: a screen point went to the world and back at zoom 1.5 with
\* the camera away from the origin.
C11_Witness ==
    /\ Chain("screen_to_world", "world_to_screen")
    /\ zoom = Frac(3, 2) /\ x # R(0)
    /\ trip[1].arg = <<Frac(-1, 2), R(95)>>
    /\ trip[1].res # trip[1].arg
    /\ trip[2].res = trip[1].arg

TileOps == {"world_to_tile", "tile_to_world", "screen_to_tile", "tile_to_screen"}

\* C12: with no tilemap configured, world_to_tile, tile_to_world,
\* screen_to_tile and tile_to_screen each return None, and none of them
\* raises.
C12_NoMapGivesNone ==
    tilemap = None =>
        \A i \in DOMAIN trip :
            trip[i].op \in TileOps => (trip[i].res = None /\ ~trip[i].raised)

\* C13: with a tilemap configured, world_to_tile of tile_to_world of a tile
\* (tx, ty) is (tx, ty), negative coordinates included, and world_to_tile
\* maps every world point to the tile whose rectangle
\* [tx*w, (tx+1)*w) x [ty*h, (ty+1)*h) holds the point.
C13_TileRoundTrip ==
    tilemap # None =>
        /\ Chain("tile_to_world", "world_to_tile") => trip[2].res = trip[1].arg
        /\ \A i \in DOMAIN trip :
              trip[i].op = "world_to_tile" =>
                 LET p == trip[i].arg
                     t == trip[i].res
                     w == tilemap.tile_width
                     h == tilemap.tile_height
                 IN  /\ RLe(R(t[1] * w), p[1]) /\ RLt(p[1], R((t[1] + 1) * w))
                     /\ RLe(R(t[2] * h), p[2]) /\ RLt(p[2], R((t[2] + 1) * h))

\* C13 witness: a negative tile went to the world and back on the map of
\* 16 x 24 tiles.
C13_Witness ==
    /\ tilemap # None /\ tilemap.tile_width = 16 /\ tilemap.tile_height = 24
    /\ Chain("tile_to_world", "world_to_tile")
    /\ trip[1].arg = <<-1, -2>>
    /\ trip[1].res = <<R(-16), R(-48)>>
    /\ trip[2].res = <<-1, -2>>

(***************************************************************************)
(* Runs of Camera.update on an unbounded camera with a fixed target.       *)
(***************************************************************************)
\* Values of camera.smoothing in (0, 1].
RunSmoothingArgs == {Frac(1, 10), Frac(1, 2), R(1)}

\* Positions the camera starts a run of updates at.
StartArgs == {<<R(0), R(0)>>, <<R(100), R(-50)>>, <<R(1000), R(300)>>}

\* Targets of the camera, fixed for the run.
TargetArgs == {<<R(400), R(300)>>, <<R(0), R(-100)>>}

\* dt arguments of the updates of a run, whole multiples of 1/60 s.
RunDtArgs == {Frac(k, CalibrationRate) : k \in 0..3}

\* A camera at a start position with a target, no bounds, no follow point.
InitRun ==
    /\ \E s \in RunSmoothingArgs, p \in StartArgs, t \in TargetArgs :
          /\ smoothing = s
          /\ x = p[1] /\ y = p[2]
          /\ start_x = p[1] /\ start_y = p[2]
          /\ _target_x = t[1] /\ _target_y = t[2]
    /\ zoom = R(1)
    /\ bounds = None
    /\ _follow_x = R(0) /\ _follow_y = R(0)
    /\ last = Call("init", R(0), FALSE)
    /\ settled = FALSE
    /\ calls = 0
    /\ GameIdle
    /\ ConvIdle
    /\ SpriteInit
    /\ ticks = 0
    /\ updates = 0

\* One more update(d) of the run.
RunUpdate ==
    \E d \in RunDtArgs :
       /\ updates < MaxTicks
       /\ ticks + Exponent(d) <= MaxTicks
       /\ update(d)
       /\ ticks' = ticks + Exponent(d)
       /\ updates' = updates + 1
       /\ UNCHANGED <<start_x, start_y, calls, gameVars, trip, spriteVars>>

NextRun == RunUpdate

SpecRun == InitRun /\ [][NextRun]_vars

\* C14: on an unbounded camera with a fixed target and smoothing in (0, 1],
\* consecutive update() calls leave the position one update() of their
\* total time leaves, so k calls of update(d) equal update(k * d): the
\* distance to the target shrinks by (1 - smoothing) ** (60 * total time).
C14_FrameRateIndependent ==
    LET total == Frac(ticks, CalibrationRate)
        shrink == RPow(RSub(R(1), smoothing), ticks)
    IN  updates > 0 =>
           /\ x = Smoothed(start_x, _target_x, total)
           /\ y = Smoothed(start_y, _target_y, total)
           /\ RSub(_target_x, x) = RMul(RSub(_target_x, start_x), shrink)
           /\ RSub(_target_y, y) = RMul(RSub(_target_y, start_y), shrink)

\* C14 witness: four calls of update(1/60) at smoothing 0.1 have moved the
\* camera part of the way from (0, 0) to (400, 300).
C14_Witness ==
    /\ smoothing = Frac(1, 10)
    /\ updates = 4 /\ ticks = 4
    /\ start_x = R(0) /\ _target_x = R(400)
    /\ x = Frac(34390, 250)
    /\ x = Smoothed(start_x, _target_x, Frac(4, CalibrationRate))

(***************************************************************************)
(* AnimatedSprite driven by an arbitrary caller.  Times are whole numbers  *)
(* of one time unit; a frame list is modelled by its length.               *)
(***************************************************************************)
Animation(n, d, l) == [frames |-> n, frame_duration |-> d, loop |-> l]

\* Animations passed to add_animation: frame lists of 0 to 3 surfaces,
\* looping and not, frame durations of 0, 1 and 2 units.
AnimationArgs ==
    { Animation(3, 2, FALSE), Animation(3, 2, TRUE), Animation(1, 2, FALSE),
      Animation(2, 0, TRUE), Animation(2, 0, FALSE), Animation(0, 1, TRUE) }

\* dt arguments of update(), in time units.
SpriteDtArgs == {0, 1, 3}

\* anim.frames[index] raised IndexError.
IndexError == <<"IndexError">>

\* AnimatedSprite._update_image for current animation cur and frame index
\* frm: the image the sprite shows afterwards, or IndexError.
_update_image(cur, frm) ==
    IF cur = NoAnimation THEN _image
    ELSE LET anim == _animations[cur]
         IN  IF anim = None \/ anim.frames = 0 THEN _image
             ELSE IF frm < anim.frames THEN <<cur, frm>>
             ELSE IndexError

\* AnimatedSprite.add_animation
add_animation(name, anim) ==
    /\ _animations' = [_animations EXCEPT ![name] = anim]
    /\ IF _current_animation = NoAnimation /\ anim.frames > 0
       THEN /\ _current_animation' = name
            /\ _image' = <<name, 0>>
       ELSE UNCHANGED <<_current_animation, _image>>
    /\ sp_acc' = IF name = _current_animation THEN -1 ELSE sp_acc
    /\ sp_last' = SpriteCall("add_animation", FALSE, FALSE)
    /\ UNCHANGED <<_current_frame, _elapsed, _playing, sp_pc>>

\* AnimatedSprite.play
play(name, restart) ==
    IF _animations[name] = None
    THEN /\ sp_last' = SpriteCall("play", TRUE, FALSE)
         /\ UNCHANGED <<_animations, _current_animation, _current_frame,
                        _elapsed, _playing, _image, sp_pc, sp_acc>>
    ELSE /\ IF name # _current_animation \/ restart
            THEN /\ _current_animation' = name
                 /\ _current_frame' = 0
                 /\ _elapsed' = 0
                 /\ _image' = _update_image(name, 0)
                 /\ sp_acc' = 0
            ELSE /\ UNCHANGED <<_current_animation, _current_frame, _elapsed,
                                _image>>
                 /\ sp_acc' = IF _playing THEN sp_acc
                              ELSE IF _current_frame = 0 /\ _elapsed = 0
                              THEN 0 ELSE -1
         /\ _playing' = TRUE
         /\ sp_last' = SpriteCall("play", FALSE, FALSE)
         /\ UNCHANGED <<_animations, sp_pc>>

\* AnimatedSprite.stop
stop ==
    /\ _playing' = FALSE
    /\ sp_acc' = IF _playing THEN -1 ELSE sp_acc
    /\ sp_last' = SpriteCall("stop", FALSE, FALSE)
    /\ UNCHANGED <<_animations, _current_animation, _current_frame, _elapsed,
                   _image, sp_pc>>

\* AnimatedSprite.update up to its while loop: the early returns, then
\* self._elapsed += dt.
update_enter(dt) ==
    IF \/ ~_playing
       \/ _current_animation = NoAnimation
       \/ _animations[_current_animation] = None
       \/ _animations[_current_animation].frames = 0
    THEN /\ sp_last' = SpriteCall("update", TRUE, FALSE)
         /\ UNCHANGED <<_animations, _current_animation, _current_frame,
                        _elapsed, _playing, _image, sp_pc, sp_acc>>
    ELSE /\ _elapsed' = _elapsed + dt
         /\ sp_acc' = IF sp_acc >= 0 THEN sp_acc + dt ELSE -1
         /\ sp_pc' = "while"
         /\ sp_last' = SpriteCall("update", FALSE, FALSE)
         /\ UNCHANGED <<_animations, _current_animation, _current_frame,
                        _playing, _image>>

\* A frame step that wraps whether or not the animation loops.
advance_always_wraps(anim) ==
    IF _current_frame + 1 >= anim.frames
    THEN [frame |-> 0, playing |-> _playing, brk |-> FALSE]
    ELSE [frame |-> _current_frame + 1, playing |-> _playing, brk |-> FALSE]

\* The frame step of the loop body: self._current_frame += 1 and the
\* handling of the end of the list.
advance(anim) ==
    IF _current_frame + 1 >= anim.frames
    THEN IF anim.loop
         THEN [frame |-> 0, playing |-> _playing, brk |-> FALSE]
         ELSE [frame |-> anim.frames - 1, playing |-> FALSE, brk |-> TRUE]
    ELSE [frame |-> _current_frame + 1, playing |-> _playing, brk |-> FALSE]

\* One iteration of: while self._elapsed >= anim.frame_duration
update_while ==
    LET anim == _animations[_current_animation]
        step == advance(anim)
    IN  /\ _elapsed >= anim.frame_duration
        /\ _elapsed' = _elapsed - anim.frame_duration
        /\ _current_frame' = step.frame
        /\ _playing' = step.playing
        /\ sp_pc' = IF step.brk THEN "image" ELSE "while"
        /\ UNCHANGED <<_animations, _current_animation, _image, sp_last,
                       sp_acc>>

\* The end of update: the loop's test fails or the loop was left by break,
\* then self._update_image().
update_image ==
    LET anim == _animations[_current_animation]
        img == _update_image(_current_animation, _current_frame)
    IN  /\ sp_pc = "image" \/ _elapsed < anim.frame_duration
        /\ IF img = IndexError
           THEN /\ sp_last' = SpriteCall("update", FALSE, TRUE)
                /\ UNCHANGED _image
           ELSE /\ _image' = img
                /\ UNCHANGED sp_last
        /\ sp_pc' = "idle"
        /\ UNCHANGED <<_animations, _current_animation, _current_frame,
                       _elapsed, _playing, sp_acc>>

InitSprite ==
    /\ CameraInit(Frac(1, 10))
    /\ calls = 0
    /\ GameIdle
    /\ ExtraIdle

\* One call of the caller, made when no update is in progress.
SpriteCalled ==
    /\ sp_pc = "idle"
    /\ sp_calls < MaxSpriteCalls /\ sp_calls' = sp_calls + 1
    /\ UNCHANGED <<camVars, calls, gameVars, trip, smoothVars>>

SpAddAnimation ==
    SpriteCalled /\ \E n \in AnimNames, a \in AnimationArgs : add_animation(n, a)

SpPlay == SpriteCalled /\ \E n \in AnimNames, r \in BOOLEAN : play(n, r)

SpStop == SpriteCalled /\ stop

SpUpdate == SpriteCalled /\ \E d \in SpriteDtArgs : update_enter(d)

SpWhile ==
    /\ sp_pc = "while"
    /\ update_while
    /\ UNCHANGED <<camVars, calls, gameVars, trip, smoothVars, sp_calls>>

SpImage ==
    /\ sp_pc \in {"while", "image"}
    /\ update_image
    /\ UNCHANGED <<camVars, calls, gameVars, trip, smoothVars, sp_calls>>

NextSprite ==
    \/ SpAddAnimation
    \/ SpPlay
    \/ SpStop
    \/ SpUpdate
    \/ SpWhile
    \/ SpImage

SpecSprite == InitSprite /\ [][NextSprite]_vars

\* The update in progress goes on as long as it has a step to take.
SpecSpriteFair == SpecSprite /\ WF_vars(SpWhile) /\ WF_vars(SpImage)

(***************************************************************************)
(* Properties of AnimatedSprite.                                           *)
(***************************************************************************)
CurrentAnim == _animations[_current_animation]

HasFrames ==
    /\ _current_animation # NoAnimation
    /\ CurrentAnim # None
    /\ CurrentAnim.frames > 0

\* C15: after any sequence of add_animation, play, stop and update calls,
\* whenever the current animation has a non-empty frame list,
\* 0 <= _current_frame < number of frames of the current animation, and no
\* call indexes past the end of the list.
C15_FrameIndexInRange ==
    /\ HasFrames =>
          /\ 0 <= _current_frame
          /\ _current_frame < CurrentAnim.frames
    /\ ~sp_last.raised

\* An animation with n >= 1 frames and a positive frame duration has been
\* playing from frame 0, and no call is in progress.
Tracked ==
    /\ sp_pc = "idle"
    /\ sp_acc >= 0
    /\ HasFrames
    /\ CurrentAnim.frame_duration > 0

FramesDue == sp_acc \div CurrentAnim.frame_duration

\* C16: a non-looping animation of n >= 1 frames and positive frame
\* duration playing from frame 0 rests on frame n - 1 with is_playing false
\* once the accumulated dt has reached n * frame_duration, and stays so
\* under later updates until play() is called; before that it shows frame
\* accumulated dt // frame_duration.  A looping one wraps from n - 1 to 0
\* and keeps playing.
C16_NonLoopingRests ==
    Tracked =>
       IF CurrentAnim.loop
       THEN /\ _playing
            /\ _current_frame = FramesDue % CurrentAnim.frames
       ELSE IF sp_acc >= CurrentAnim.frames * CurrentAnim.frame_duration
            THEN /\ ~_playing
                 /\ _current_frame = CurrentAnim.frames - 1
            ELSE /\ _playing
                 /\ _current_frame = FramesDue

\* C16 witness: the three-frame non-looping animation has had its 3 * 2
\* units, rests on frame 2, and an update was called after it stopped.
C16_Witness ==
    /\ Tracked
    /\ CurrentAnim = Animation(3, 2, FALSE)
    /\ sp_acc >= 6
    /\ sp_last = SpriteCall("update", TRUE, FALSE)
    /\ _current_frame = 2
    /\ ~_playing
    /\ _image = <<_current_animation, 2>>

\* C17: every update(dt) terminates: an update that has entered its frame
\* loop leaves it and returns.
C17_UpdateTerminates == (sp_pc = "while") ~> (sp_pc = "idle")

====
